---- MODULE Spec2Model ----
(***************************************************************************)
(* rustagit: the static site generator of src/templates.rs (Templator,     *)
(* UrlResolver) over the repository query layer of src/repository.rs.      *)
(*                                                                         *)
(* Encoding of paths.  A path is a sequence of components, relative to the *)
(* destination root (UrlResolver.base of the Templator is the empty        *)
(* sequence).  A component is the sequence of the dot-separated parts of   *)
(* a file name: "foo" is <<"foo">>, "foo.html" is <<"foo", "html">>,       *)
(* "log.html" is <<"log", "html">>.  "." and ".." are the components       *)
(* CurDir and ParentDir.                                                   *)
(***************************************************************************)
EXTENDS Integers, Sequences, FiniteSets, TLC

\* ------------------------------------------------------------------ bounds

\* Entries (files, directories, submodules) in the whole head tree.
MaxNodes == 3
\* Commits reachable from the head.
MaxCommits == 2

\* ------------------------------------------------------------- path algebra

CurDir == <<".">>
ParentDir == <<"..">>

\* Path::parent
Parent(path) == SubSeq(path, 1, Len(path) - 1)

\* Path::file_name
FileName(path) == path[Len(path)]

\* UrlResolver::join
Join(base, name) == Append(base, name)

\* UrlResolver::join of a walk's parent ("a/b/"): one component per directory
JoinAll(base, names) == base \o names

\* UrlResolver::dot_html: ".html" appended to the file name
DotHtml(base) ==
    Append(Parent(base), Append(FileName(base), "html"))

\* Path::extension is Some: a dot that is not the file name's first byte
HasExtension(name) ==
    /\ Len(name) >= 2
    /\ ~(Len(name) = 2 /\ name[1] = "")

WithExtensionKept(path) == path

\* Path::with_extension(""): the file name without its last dot-suffix
WithExtensionEmpty(path) ==
    IF HasExtension(FileName(path))
    THEN Append(Parent(path), SubSeq(FileName(path), 1, Len(FileName(path)) - 1))
    ELSE path

CommitDir(base) == Join(base, <<"commit">>)

CommitFile(base, id) == Join(CommitDir(base), <<id, "html">>)

CommitLog(base) == Join(base, <<"log", "html">>)

TreeDir(base) == Join(base, <<"tree">>)

TreeIndex(base) == DotHtml(TreeDir(base))

RefsList(base) == Join(base, <<"refs", "html">>)

StyleCss(base) == Join(base, <<"rustagit", "css">>)

\* The Templator's own resolver: every path is relative to the destination.
Url == <<>>

SaturatingSub1(n) == IF n = 0 THEN 0 ELSE n - 1

RelRootFromNoSub(path) ==
    [i \in 1..Len(path) |-> ParentDir]

\* UrlResolver::rel_root_from: "../" once per directory between the page and
\* the destination root, the last "/" cut; "." when there is none.
RelRootFrom(path) ==
    IF SaturatingSub1(Len(path)) = 0
    THEN <<CurDir>>
    ELSE [i \in 1..SaturatingSub1(Len(path)) |-> ParentDir]

\* How a browser resolves a relative link against the directory of the page
\* that holds it.
RECURSIVE Resolve(_, _)
Resolve(dir, href) ==
    IF href = <<>> THEN dir
    ELSE IF Head(href) = CurDir THEN Resolve(dir, Tail(href))
    ELSE IF Head(href) = ParentDir
         THEN Resolve(IF dir = <<>> THEN dir ELSE Parent(dir), Tail(href))
    ELSE Resolve(Append(dir, Head(href)), Tail(href))

\* The number of ".." components of a link prefix.
RECURSIVE Escapes(_)
Escapes(href) ==
    IF href = <<>> THEN 0
    ELSE (IF Head(href) = ParentDir THEN 1 ELSE 0) + Escapes(Tail(href))

\* ------------------------------------------------------------------ inputs

\* Entry names of the head tree: "foo" and "foo.html".
Names == { <<"foo">>, <<"foo", "html">> }

\* What a tree entry is when it is no directory: a blob whose bytes decode as
\* UTF-8, a blob whose bytes do not, an entry that is neither tree nor blob
\* (a submodule commit).
LeafKinds ==
    { [kind |-> "blob", text |-> TRUE],
      [kind |-> "blob", text |-> FALSE],
      [kind |-> "commit", text |-> TRUE],
      [kind |-> "tree", text |-> TRUE] }

\* git2::Tree: the children in stored order.  ForestsOfSize(n) is every tree
\* holding n entries in all, its subtrees' entries included.  libgit2 reads a
\* tree object as stored: it checks neither the order of the names nor that
\* they differ.
RECURSIVE ForestsOfSize(_)
EntriesOfSize(k) ==
    IF k = 0
    THEN { [name |-> n, kind |-> lk.kind, text |-> lk.text, children |-> <<>>] :
             n \in Names, lk \in LeafKinds }
    ELSE { [name |-> n, kind |-> "tree", text |-> TRUE, children |-> c] :
             n \in Names, c \in ForestsOfSize(k) }

ForestsOfSize(n) ==
    IF n = 0 THEN { <<>> }
    ELSE UNION { { <<e>> \o r : e \in EntriesOfSize(k), r \in ForestsOfSize(n - 1 - k) } :
                   k \in 0..(n - 1) }

ForestsUpTo(n) == UNION { ForestsOfSize(k) : k \in 0..n }

\* The text fields of a commit that the pages read.
TextFields ==
    { "summary", "author_name", "author_email", "committer_name",
      "committer_email", "message", "diffstat" }

CommitId(i) == IF i = 1 THEN "c1" ELSE IF i = 2 THEN "c2" ELSE IF i = 3 THEN "c3" ELSE "c4"

Alice == [name |-> "alice", email |-> "alice@example.org"]
Bob == [name |-> "bob", email |-> "bob@example.org"]

\* git2::Commit as the pages read it.  bad names the one text field whose
\* bytes do not decode ("none": all decode).  deltas lists the deltas of the
\* commit's change-set in stored order: "text" has a patch that decodes,
\* "invalid" has a patch whose bytes do not decode, "none" has no patch.
PlainCommit(i) ==
    [id |-> CommitId(i), author |-> Alice, committer |-> Alice, bad |-> "none",
     deltas |-> <<"text", "none">>]

CommitChoices(i) ==
    { PlainCommit(i), [PlainCommit(i) EXCEPT !.committer = Bob],
      [PlainCommit(i) EXCEPT !.deltas = <<"none", "invalid", "text">>] }
    \cup { [PlainCommit(i) EXCEPT !.bad = f] : f \in TextFields }

\* The commits reachable from the head, as the revwalk yields them.
PlainHistory(n) == [i \in 1..n |-> PlainCommit(i)]

Histories(n) ==
    UNION { { h \in [1..k -> UNION { CommitChoices(i) : i \in 1..k }] :
                \A i \in 1..k : h[i] \in CommitChoices(i) } : k \in 1..n }

\* A sidecar file of the git directory: absent, unreadable (permission
\* denied), holding bytes that are not UTF-8, or holding text (a sequence of
\* characters).
Absent == [kind |-> "absent", text |-> <<>>]
Denied == [kind |-> "denied", text |-> <<>>]
Undecodable == [kind |-> "undecodable", text |-> <<>>]
TextFile(t) == [kind |-> "text", text |-> t]

SidecarFiles ==
    { Absent, Denied, Undecodable,
      TextFile(<<"\n">>), TextFile(<<" ", "a", " ", "b", "\n">>) }

SidecarProps == { "description", "url" }

\* The sidecar files of a repository with a description and no url file.
PlainSidecar ==
    [description |-> TextFile(<<" ", "a", " ", "b", "\n">>), url |-> Absent]

Sidecars == [SidecarProps -> SidecarFiles]

\* The final segment of the canonical path of the repository.
RepositoryPath == <<<<"srv">>, <<"repo", "git">>>>

\* The paths of the directory entries of a tree, each below base.
RECURSIVE DirPaths(_, _)
DirPaths(forest, base) ==
    IF forest = <<>> THEN {}
    ELSE LET e == Head(forest) IN
         (IF e.kind = "tree"
          THEN { Join(base, e.name) } \cup DirPaths(e.children, Join(base, e.name))
          ELSE {})
         \cup DirPaths(Tail(forest), base)

CustomCss == [kind |-> "css", bytes |-> "custom"]

\* The destination before the run: absent; a directory holding only a
\* hand-made stylesheet; a directory holding the stylesheet and the
\* directories that mirror the head tree.
DestChoices(t) ==
    { [dirs |-> {}, files |-> <<>>],
      [dirs |-> { <<>> }, files |-> (StyleCss(Url) :> CustomCss)],
      [dirs |-> { <<>>, CommitDir(Url), TreeDir(Url) } \cup DirPaths(t, TreeDir(Url)),
       files |-> (StyleCss(Url) :> CustomCss)] }

\* ------------------------------------------------------------------- state

VARIABLES
    commits,    \* the history of the repository (input)
    tree,       \* the head tree of the repository (input)
    dest0,      \* the destination as the run found it (input)
    dirs,       \* the directories of the destination
    files,      \* the files of the destination: path -> content
    writes,     \* the paths of the files this run wrote, in order
    pc,         \* the step of Templator::generate that runs next
    ci,         \* write_all_commits: the commit the loop is at
    pos,        \* write_all_tree_nodes: the entry the walk is at
    result,     \* what generate returned: "running", "Ok" or the error
    failure,    \* history: the first error, the files and the writes at that point
    sidecar,    \* the description and url files of the git directory (environment)
    cache,      \* Repository::cached_properties
    reads       \* history: per property, what each computation of it read

vars ==
    <<commits, tree, dest0, dirs, files, writes, pc, ci, pos, result, failure,
      sidecar, cache, reads>>

None == [set |-> FALSE, value |-> <<>>]
Some(v) == [set |-> TRUE, value |-> v]

CachedProps == { "name", "description", "url" }

NoFailure == [err |-> "none", files |-> <<>>, writes |-> <<>>]

InitWith(histories, forests, sidecars) ==
    /\ sidecar \in sidecars
    /\ cache = [p \in CachedProps |-> None]
    /\ reads = [p \in CachedProps |-> <<>>]
    /\ commits \in histories
    /\ tree \in forests
    /\ dest0 \in DestChoices(tree)
    /\ dirs = dest0.dirs
    /\ files = dest0.files
    /\ writes = <<>>
    /\ pc = "precreate_dirs"
    /\ ci = 1
    /\ pos = 1
    /\ result = "running"
    /\ failure = NoFailure

\* The head tree varies; the history is a single plain commit.
Init == InitWith({ PlainHistory(1) }, ForestsUpTo(MaxNodes), { PlainSidecar })

\* The history varies; the head tree holds at most one entry.
InitLog == InitWith(Histories(MaxCommits), ForestsUpTo(1), { PlainSidecar })

\* The sidecar files vary; one plain commit, a head tree of at most one entry.
InitMeta == InitWith({ PlainHistory(1) }, ForestsUpTo(1), Sidecars)

\* -------------------------------------------------------------- file system

\* A path and the directories above it, the destination root included.
PrefixesOf(path) == { SubSeq(path, 1, k) : k \in 0..Len(path) }

Put(f, path, content) ==
    [p \in DOMAIN f \cup { path } |-> IF p = path THEN content ELSE f[p]]

\* The destination as an action reads it; err is the first error met.
Fs ==
    [dirs |-> dirs, files |-> files, writes |-> writes, err |-> "none",
     cache |-> cache, reads |-> reads]

\* fs::create_dir_all.  fault: the operating system refuses the operation.
CreateDirAll(s, path, fault) ==
    IF s.err # "none" THEN s
    ELSE IF fault THEN [s EXCEPT !.err = "IoError"]
    ELSE IF PrefixesOf(path) \cap DOMAIN s.files # {}
         THEN [s EXCEPT !.err = "NotADirectory"]
    ELSE [s EXCEPT !.dirs = @ \cup PrefixesOf(path)]

\* fs::write: creates or truncates the file; its directory must exist.
FsWrite(s, path, content, fault) ==
    IF s.err # "none" THEN s
    ELSE IF fault THEN [s EXCEPT !.err = "IoError"]
    ELSE IF Parent(path) \in DOMAIN s.files THEN [s EXCEPT !.err = "NotADirectory"]
    ELSE IF Parent(path) \notin s.dirs THEN [s EXCEPT !.err = "NotFound"]
    ELSE IF path \in s.dirs THEN [s EXCEPT !.err = "IsADirectory"]
    ELSE [s EXCEPT !.files = Put(@, path, content), !.writes = Append(@, path)]

\* A read of the object store.  fault: the object is unreadable.
ReadObject(s, fault) ==
    IF s.err # "none" THEN s
    ELSE IF fault THEN [s EXCEPT !.err = "ObjectReadError"]
    ELSE s

\* A value that must be Some(..): ok_or(InvalidUtf)?
OkOrInvalidUtf(s, isSome) ==
    IF s.err # "none" THEN s
    ELSE IF ~isSome THEN [s EXCEPT !.err = "InvalidUtf"]
    ELSE s

\* --------------------------------------------------------------- templates

DefaultCss == [kind |-> "css", bytes |-> "default"]

\* The links of the navigation block, each built from the page's way out.
Nav(the_way_out) ==
    [css |-> StyleCss(the_way_out),
     log |-> CommitLog(the_way_out),
     tree |-> TreeIndex(the_way_out),
     refs |-> RefsList(the_way_out)]

Whitespace == { " ", "\n" }

RECURSIVE TrimStart(_)
TrimStart(t) ==
    IF t # <<>> /\ Head(t) \in Whitespace THEN TrimStart(Tail(t)) ELSE t

RECURSIVE TrimEnd(_)
TrimEnd(t) ==
    IF t # <<>> /\ t[Len(t)] \in Whitespace THEN TrimEnd(SubSeq(t, 1, Len(t) - 1)) ELSE t

\* str::trim
Trim(t) == TrimEnd(TrimStart(t))

\* fs::read_to_string
ReadToString(file) ==
    CASE file.kind = "text" -> [ok |-> TRUE, s |-> file.text, err |-> "none"]
      [] file.kind = "absent" -> [ok |-> FALSE, s |-> <<>>, err |-> "NotFound"]
      [] file.kind = "denied" -> [ok |-> FALSE, s |-> <<>>, err |-> "PermissionDenied"]
      [] file.kind = "undecodable" -> [ok |-> FALSE, s |-> <<>>, err |-> "InvalidData"]

ReadGitdirOrBlankNoTrim(file) ==
    LET r == ReadToString(file) IN IF r.ok THEN r.s ELSE <<>>

\* Repository::read_gitdir_or_blank
ReadGitdirOrBlank(file) ==
    LET r == ReadToString(file) IN IF r.ok THEN Trim(r.s) ELSE <<>>

\* path.file_name().unwrap().to_string_lossy()
PathFileName(path) == <<FileName(path)>>

\* #[cached_property]: the state after a call of the method prop, whose body
\* computes value from source.  The body runs when the cache holds no value
\* for prop, and the value is kept; the call returns the cached value.
CachedProperty(s, prop, source, value) ==
    IF s.cache[prop].set THEN s
    ELSE [s EXCEPT !.cache[prop] = Some(value),
                   !.reads[prop] = Append(@, source)]

\* Repository::name
RepositoryName(s) == CachedProperty(s, "name", RepositoryPath, PathFileName(RepositoryPath))

\* Repository::description, were it not a cached property.
RepositoryDescriptionUncached(s) ==
    [s EXCEPT !.cache["description"] = Some(ReadGitdirOrBlank(sidecar.description)),
              !.reads["description"] = Append(@, sidecar.description)]

\* Repository::description
RepositoryDescription(s) ==
    CachedProperty(s, "description", sidecar.description,
                   ReadGitdirOrBlank(sidecar.description))

\* Repository::url
RepositoryUrl(s) ==
    CachedProperty(s, "url", sidecar.url, ReadGitdirOrBlank(sidecar.url))

\* Templator::template_page: the calls of name(), description() and url().
\* The content of the page is built before template_page is called: after an
\* error in it there is no call.
Templated(s) ==
    IF s.err # "none" THEN s
    ELSE RepositoryUrl(RepositoryDescription(RepositoryName(s)))

\* Templator::template_page
TemplatePage(s, title, path, content) ==
    LET t == Templated(s)
    IN [kind |-> "page", title |-> title,
        name |-> t.cache["name"].value,
        description |-> t.cache["description"].value,
        url |-> t.cache["url"].value,
        nav |-> Nav(RelRootFrom(path)), main |-> content]

\* The commits in the order the revwalk yields them.
RevWalk(history) == history

\* Repository::commit_log: the commits its iterator visits.
RepositoryCommitLog == RevWalk(commits)

\* commit.parents(): the history is linear, a commit's only parent is the
\* commit the revwalk yields after it.
Parents(i) ==
    IF i < Len(RepositoryCommitLog) THEN <<RepositoryCommitLog[i + 1].id>> ELSE <<>>

\* commit.parents().next().and_then(|parent| parent.tree().ok()): None, the
\* empty tree, when there is no parent and also when the read of the first
\* parent's tree fails (lost).
ParentTree(i, lost) ==
    IF Parents(i) = <<>> \/ lost THEN "empty" ELSE Head(Parents(i))

\* The Ok item of the iterator of commit_log for the i-th commit: the commit
\* (with the parents it names) and the diff from the parent tree to the
\* commit's tree.
CommitInfo(i, lost) ==
    [commit |-> RepositoryCommitLog[i],
     parents |-> Parents(i),
     diff |-> [old |-> ParentTree(i, lost), new |-> RepositoryCommitLog[i].id]]

\* One row of the commit log table; the three counts come from the diff.
LogRow(info) ==
    [href |-> <<<<"commit">>, <<info.commit.id, "html">>>>, id |-> info.commit.id,
     author |-> info.commit.author.name, stats |-> info.diff]

\* The text fields write_commit_log decodes for one row.
LogFields == { "summary", "author_name" }

\* The text fields write_commit decodes.
CommitFields == { "author_name", "author_email", "committer_email", "message", "diffstat" }

\* The author entry of a commit page: name, then the mailto link.
AuthorEntry(c) == [name |-> c.author.name, email |-> c.author.email]

\* The committer entry of a commit page: name, then the mailto link.
CommitterEntry(c) == [name |-> c.author.name, email |-> c.committer.email]

\* The delta loop of write_commit: for each delta in stored order the text
\* of its patch, or the marker when Patch::from_diff gave None.
DeltaSections(deltas) ==
    [k \in 1..Len(deltas) |->
        IF deltas[k] = "none"
        THEN [kind |-> "marker", text |-> "unchanged or binary"]
        ELSE [kind |-> "pre", patch |-> k]]

\* The patches of the delta loop all pass as_str().ok_or(InvalidUtf)?
PatchesDecode(deltas) == \A k \in 1..Len(deltas) : deltas[k] # "invalid"

CommitContent(info) ==
    [kind |-> "commit", id |-> info.commit.id, parents |-> info.parents,
     author |-> AuthorEntry(info.commit), committer |-> CommitterEntry(info.commit),
     diffstat |-> info.diff, deltas |-> DeltaSections(info.commit.deltas)]

\* ---------------------------------------------------------------- generate

NextStepLogLast(step) ==
    CASE step = "precreate_dirs" -> "write_default_css_if_not_exists"
      [] step = "write_default_css_if_not_exists" -> "write_all_commits"
      [] step = "write_all_commits" -> "write_commit_log"
      [] step = "write_commit_log" -> "write_all_tree_nodes"
      [] step = "write_all_tree_nodes" -> "done"

\* Templator::generate: the order of the steps, each ended by `?`.
NextStep(step) ==
    CASE step = "precreate_dirs" -> "write_default_css_if_not_exists"
      [] step = "write_default_css_if_not_exists" -> "write_commit_log"
      [] step = "write_commit_log" -> "write_all_commits"
      [] step = "write_all_commits" -> "write_all_tree_nodes"
      [] step = "write_all_tree_nodes" -> "done"

\* An operation ended in state s.  With stop the error is returned from
\* generate at once; otherwise the run goes on at step next.
Step(s, next, stop) ==
    /\ dirs' = s.dirs
    /\ files' = s.files
    /\ writes' = s.writes
    /\ cache' = s.cache
    /\ reads' = s.reads
    /\ failure' = IF failure.err = "none" /\ s.err # "none"
                  THEN [err |-> s.err, files |-> s.files, writes |-> s.writes]
                  ELSE failure
    /\ IF stop
       THEN /\ pc' = "failed"
            /\ result' = s.err
       ELSE /\ pc' = next
            /\ result' = IF next = "done" THEN "Ok" ELSE "running"

\* The `?` after a step of generate: an error is returned at once.
Finish(s, next) == Step(s, next, s.err # "none")

\* Templator::precreate_dirs
PrecreateDirs ==
    /\ pc = "precreate_dirs"
    /\ \E fault \in 0..2 :
         LET s1 == CreateDirAll(Fs, Url, fault = 1)
             s2 == CreateDirAll(s1, CommitDir(Url), fault = 2)
         IN Finish(s2, NextStep("precreate_dirs"))
    /\ UNCHANGED <<commits, tree, dest0, sidecar, ci, pos>>

\* Templator::write_default_css_if_not_exists: OpenOptions::create_new
WriteDefaultCssIfNotExists ==
    /\ pc = "write_default_css_if_not_exists"
    /\ \E fault \in 0..1 :
         LET s1 == IF fault = 0 /\ StyleCss(Url) \in DOMAIN files
                   THEN Fs      \* ErrorKind::AlreadyExists => Ok(())
                   ELSE FsWrite(Fs, StyleCss(Url), DefaultCss, fault = 1)
         IN Finish(s1, NextStep("write_default_css_if_not_exists"))
    /\ UNCHANGED <<commits, tree, dest0, sidecar, ci, pos>>

\* The first i rows of the log decode.
RECURSIVE LogRowsOk(_, _)
LogRowsOk(log, i) ==
    IF i = 0 THEN TRUE
    ELSE LogRowsOk(log, i - 1) /\ log[i].bad \notin LogFields

\* Templator::write_commit_log: the rows are built first, one per commit of
\* commit_log(); the page is written once they all are.  lost: the commits
\* for which the read of the first parent's tree fails.
WriteCommitLog ==
    /\ pc = "write_commit_log"
    /\ \E fault \in 0..2, lost \in SUBSET (1..(Len(RepositoryCommitLog) - 1)) :
         LET log == RepositoryCommitLog
             s1 == ReadObject(Fs, fault = 1)
             s2 == OkOrInvalidUtf(s1, LogRowsOk(log, Len(log)))
             content == [kind |-> "log",
                         rows |-> [i \in 1..Len(log) |-> LogRow(CommitInfo(i, i \in lost))]]
             s3 == FsWrite(Templated(s2), CommitLog(Url),
                           TemplatePage(s2, <<<<"Commit log">>>>, CommitLog(Url), content),
                           fault = 2)
         IN Finish(s3, NextStep("write_commit_log"))
    /\ UNCHANGED <<commits, tree, dest0, sidecar, ci, pos>>

\* The mutant write_commit: the patches are not decoded.
WriteCommitNoDecode(s, info, fault) ==
    LET c == info.commit
        s1 == OkOrInvalidUtf(s, c.bad \notin CommitFields)
    IN FsWrite(Templated(s1), CommitFile(Url, c.id),
               TemplatePage(s1, <<<<"Commit">>, <<c.id>>>>, CommitFile(Url, c.id),
                            CommitContent(info)),
               fault)

\* Templator::write_commit
WriteCommit(s, info, fault) ==
    LET c == info.commit
        s1 == OkOrInvalidUtf(s, c.bad \notin CommitFields)
        s2 == OkOrInvalidUtf(s1, PatchesDecode(c.deltas))
    IN FsWrite(Templated(s2), CommitFile(Url, c.id),
               TemplatePage(s2, <<<<"Commit">>, <<c.id>>>>, CommitFile(Url, c.id),
                            CommitContent(info)),
               fault)

CommitsToWriteButLast == SubSeq(RepositoryCommitLog, 1, Len(RepositoryCommitLog) - 1)

\* The commits write_all_commits visits: every item of commit_log().
CommitsToWrite == RepositoryCommitLog

\* Templator::write_all_commits: one turn of the loop
WriteAllCommits ==
    /\ pc = "write_all_commits"
    /\ ci <= Len(CommitsToWrite)
    /\ \E fault \in 0..2, lost \in BOOLEAN :
         LET s1 == ReadObject(Fs, fault = 1)
             s2 == WriteCommit(s1, CommitInfo(ci, lost), fault = 2)
         IN Finish(s2, IF ci = Len(CommitsToWrite)
                       THEN NextStep("write_all_commits") ELSE "write_all_commits")
    /\ ci' = ci + 1
    /\ UNCHANGED <<commits, tree, dest0, sidecar, pos>>

\* -------------------------------------------------------------------- tree

\* One link of a directory index page: the child's name under the name of
\* the page's own directory, ".html" added, whatever the child is.
BranchItem(subtree_root, item) ==
    [href |-> DotHtml(Join(subtree_root, item.name)),
     name |-> item.name,
     slash |-> item.kind = "tree"]

\* Templator::write_tree_branch
WriteTreeBranch(s, subtree, file_path, tree_path, fault1, fault2) ==
    LET s1 == CreateDirAll(s, Parent(file_path), fault1)
        subtree_root == <<FileName(WithExtensionEmpty(file_path))>>
        content == [kind |-> "branch",
                    items |-> [i \in 1..Len(subtree) |-> BranchItem(subtree_root, subtree[i])]]
    IN FsWrite(Templated(s1), file_path, TemplatePage(s1, tree_path, file_path, content),
               fault2)

\* Templator::write_tree_leaf
WriteTreeLeaf(s, object, file_path, tree_path, fault1, fault2) ==
    LET raw_name == WithExtensionEmpty(file_path)
        s1 == IF object.text THEN s
              ELSE FsWrite(s, raw_name, [kind |-> "raw", blob |-> tree_path], fault1)
        content == IF object.text
                   THEN [kind |-> "leaf", body |-> "highlighted", raw |-> <<FileName(raw_name)>>]
                   ELSE [kind |-> "leaf", body |-> "notice", raw |-> <<FileName(raw_name)>>]
    IN FsWrite(Templated(s1), file_path, TemplatePage(s1, tree_path, file_path, content),
               fault2)

\* git2::Tree::walk(TreeWalkMode::PreOrder): the calls of the callback, each
\* with the path of the entry's directory and the entry.
RECURSIVE TreeWalkPostOrder(_, _)
TreeWalkPostOrder(forest, parent) ==
    IF forest = <<>> THEN <<>>
    ELSE LET e == Head(forest) IN
         (IF e.kind = "tree"
          THEN TreeWalkPostOrder(e.children, Append(parent, e.name)) ELSE <<>>)
         \o <<[parent |-> parent, entry |-> e]>>
         \o TreeWalkPostOrder(Tail(forest), parent)

RECURSIVE TreeWalk(_, _)
TreeWalk(forest, parent) ==
    IF forest = <<>> THEN <<>>
    ELSE LET e == Head(forest) IN
         <<[parent |-> parent, entry |-> e]>>
         \o (IF e.kind = "tree" THEN TreeWalk(e.children, Append(parent, e.name)) ELSE <<>>)
         \o TreeWalk(Tail(forest), parent)

HeadTreeWalk == TreeWalk(tree, <<>>)

\* walker: the page of an entry, tree_root.join(parent).join(name).dot_html()
OutputPath(parent, entry) ==
    DotHtml(Join(JoinAll(TreeDir(Url), parent), entry.name))

\* walker: the entry's path in the tree, the title of its page
SubtreePath(parent, entry) == Join(parent, entry.name)

\* walker: the closure called on every entry of the walk
Walker(s, parent, entry, fault) ==
    CASE entry.kind = "tree" ->
           WriteTreeBranch(ReadObject(s, fault = 1), entry.children,
                           OutputPath(parent, entry), SubtreePath(parent, entry),
                           fault = 2, fault = 3)
      [] entry.kind = "blob" ->
           WriteTreeLeaf(ReadObject(s, fault = 1), entry,
                         OutputPath(parent, entry), SubtreePath(parent, entry),
                         fault = 2, fault = 3)
      [] OTHER -> s

WalkResultAlwaysOk(err) == "Ok"

\* The callback given to walk: Ok(()) goes on, Err(e) keeps e and aborts.
WalkResult(err) == IF err = "none" THEN "Ok" ELSE "Abort"

\* Templator::write_all_tree_nodes: the head tree is read and its index page
\* written
WriteAllTreeNodes ==
    /\ pc = "write_all_tree_nodes"
    /\ \E fault \in 0..3 :
         LET s1 == ReadObject(Fs, fault = 1)
             s2 == WriteTreeBranch(s1, tree, TreeIndex(Url), <<>>, fault = 2, fault = 3)
         IN Finish(s2, IF HeadTreeWalk = <<>> THEN NextStep("write_all_tree_nodes") ELSE "walk")
    /\ UNCHANGED <<commits, tree, dest0, sidecar, ci, pos>>

\* Templator::write_all_tree_nodes: one call of the walk's callback
WalkEntry ==
    /\ pc = "walk"
    /\ pos <= Len(HeadTreeWalk)
    /\ \E fault \in 0..3 :
         LET w == HeadTreeWalk[pos]
             s1 == Walker(Fs, w.parent, w.entry, fault)
         IN Step(s1,
                 IF pos = Len(HeadTreeWalk) THEN NextStep("write_all_tree_nodes") ELSE "walk",
                 WalkResult(s1.err) = "Abort")
    /\ pos' = pos + 1
    /\ UNCHANGED <<commits, tree, dest0, sidecar, ci>>

Next ==
    \/ PrecreateDirs
    \/ WriteDefaultCssIfNotExists
    \/ WriteCommitLog
    \/ WriteAllCommits
    \/ WriteAllTreeNodes
    \/ WalkEntry

Spec == Init /\ [][Next]_vars

SpecLog == InitLog /\ [][Next]_vars

\* The environment: a sidecar file is created, changed or removed while the
\* run goes on.
SidecarChanges ==
    /\ pc \notin { "done", "failed" }
    /\ \E prop \in SidecarProps, file \in SidecarFiles :
         /\ file # sidecar[prop]
         /\ sidecar' = [sidecar EXCEPT ![prop] = file]
    /\ UNCHANGED <<commits, tree, dest0, dirs, files, writes, pc, ci, pos, result,
                   failure, cache, reads>>

NextMeta == Next \/ SidecarChanges

SpecMeta == InitMeta /\ [][NextMeta]_vars

\* ------------------------------------------------------------------ claims

IsPage(p, kind) ==
    /\ p \in DOMAIN files
    /\ files[p].kind = "page"
    /\ files[p].main.kind = kind

Written(p) == \E i \in 1..Len(writes) : writes[i] = p

\* The entries of the head tree that get a page: directories and blobs.
PagedEntries ==
    { i \in 1..Len(HeadTreeWalk) : HeadTreeWalk[i].entry.kind \in { "tree", "blob" } }

\* C1: every page written at depth d below the destination root carries
\* navigation links whose prefix has exactly d ".." segments (none at d = 0:
\* the log page and the tree root index; 1 for commit pages; k + 1 for a tree
\* entry with k parent directories), and each link, resolved against the
\* page's directory, is the path where the stylesheet, the log page and the
\* tree root index are written.
C1_NavLinksReachTheRoot ==
    \A p \in DOMAIN files :
        files[p].kind = "page" =>
            LET pg == files[p]
                d == Len(p) - 1
                css == Resolve(Parent(p), pg.nav.css)
                log == Resolve(Parent(p), pg.nav.log)
                idx == Resolve(Parent(p), pg.nav.tree)
            IN /\ d = (CASE pg.main.kind = "log" -> 0
                         [] pg.main.kind = "commit" -> 1
                         [] OTHER -> Len(pg.title))
               /\ Escapes(pg.nav.css) = d
               /\ Escapes(pg.nav.log) = d
               /\ Escapes(pg.nav.tree) = d
               /\ css \in DOMAIN files /\ files[css].kind = "css"
               /\ IsPage(log, "log")
               /\ \A r \in DOMAIN files :
                      (IsPage(r, "branch") /\ files[r].title = <<>>) => r = idx
               /\ pc = "done" => (IsPage(idx, "branch") /\ files[idx].title = <<>>)

\* C1 witness: a finished run that wrote a page two directories deep.
C1_Witness ==
    /\ pc = "done"
    /\ \E p \in DOMAIN files : IsPage(p, "leaf") /\ Len(p) = 3

\* C2: a directory entry at tree path P is written as the index page inside
\* tree/P/ (the root tree inside tree/), a file entry at P as tree/P.html.
C2_DirectoryIndexInsideItsDirectory ==
    \A p \in DOMAIN files :
        /\ IsPage(p, "branch") =>
               p = Join(JoinAll(TreeDir(Url), files[p].title), <<"index", "html">>)
        /\ IsPage(p, "leaf") =>
               p = DotHtml(JoinAll(TreeDir(Url), files[p].title))

\* No two entries of one directory share a name, at any level of the tree.
RECURSIVE DistinctNames(_)
DistinctNames(forest) ==
    /\ \A i, j \in 1..Len(forest) : i # j => forest[i].name # forest[j].name
    /\ \A i \in 1..Len(forest) : DistinctNames(forest[i].children)

\* C3: no path is written twice in one run, for every head tree, names
\* ending in ".html" included (here even with the names of every directory
\* all different).
C3_EveryPathWrittenAtMostOnce ==
    DistinctNames(tree) =>
        \A i, j \in 1..Len(writes) : i # j => writes[i] # writes[j]

\* C4: a file and a directory of the same name in one directory get different
\* output paths from the walker, so that neither page overwrites the other.
C4_FileAndDirectoryDoNotCollide ==
    pc \in { "walk", "done" } =>
        \A i, j \in 1..(pos - 1) :
            LET a == HeadTreeWalk[i]
                b == HeadTreeWalk[j]
            IN (/\ a.parent = b.parent
                /\ a.entry.name = b.entry.name
                /\ a.entry.kind = "blob"
                /\ b.entry.kind = "tree")
               => OutputPath(a.parent, a.entry) # OutputPath(b.parent, b.entry)

\* C5: into a fresh destination, with every text field decodable, no write
\* fails for want of its directory: the run fails only when the operating
\* system or the object store refuses an operation.
C5_FreshDestinationSucceeds ==
    (/\ dest0.dirs = {}
     /\ \A i \in 1..Len(commits) : commits[i].bad = "none")
    => result \in { "running", "Ok", "IoError", "ObjectReadError" }

AllPagesWritten ==
    /\ Written(CommitLog(Url))
    /\ \A i \in 1..Len(commits) : Written(CommitFile(Url, commits[i].id))
    /\ Written(TreeIndex(Url))
    /\ \A i \in PagedEntries :
           Written(OutputPath(HeadTreeWalk[i].parent, HeadTreeWalk[i].entry))

\* C6: a run against a destination that holds a stylesheet leaves its bytes
\* as they were and writes the log page, every commit page and every tree
\* page again (unless an operation is refused or a text does not decode).
C6_StylesheetKeptPagesRewritten ==
    (/\ StyleCss(Url) \in DOMAIN dest0.files
     /\ pc \in { "done", "failed" }
     /\ result \notin { "IoError", "ObjectReadError", "InvalidUtf" })
    => /\ files[StyleCss(Url)] = dest0.files[StyleCss(Url)]
       /\ pc = "done"
       /\ AllPagesWritten

\* The stylesheet part of C6 alone: an existing stylesheet is never written.
StylesheetPreserved ==
    StyleCss(Url) \in DOMAIN dest0.files =>
        /\ files[StyleCss(Url)] = dest0.files[StyleCss(Url)]
        /\ ~Written(StyleCss(Url))

IsCommitPath(p) == Len(p) = 2 /\ p[1] = <<"commit">>

\* The commit pages this run wrote, in the order it wrote them.
CommitPagesWritten == SelectSeq(writes, IsCommitPath)

\* C7: after a successful run over N commits the log page has N rows, in the
\* order commit_log yields the commits, and N commit pages were written, one
\* per commit id and in that same order; every row links to its commit page.
C7_OneRowAndOnePagePerCommit ==
    pc = "done" =>
        LET rows == files[CommitLog(Url)].main.rows
            pages == CommitPagesWritten
        IN /\ Len(rows) = Len(commits)
           /\ Len(pages) = Len(commits)
           /\ \A i \in 1..Len(commits) :
                  /\ rows[i].id = commits[i].id
                  /\ pages[i] = CommitFile(Url, commits[i].id)
                  /\ Resolve(Parent(CommitLog(Url)), rows[i].href) = pages[i]
                  /\ IsPage(pages[i], "commit")
                  /\ files[pages[i]].main.id = commits[i].id

\* C7 witness: a successful run over two commits.
C7_Witness ==
    /\ pc = "done"
    /\ Len(commits) = 2
    /\ Len(CommitPagesWritten) = 2

\* The step of generate that writes a path.
Stage(p) ==
    IF p = StyleCss(Url) THEN 1
    ELSE IF p = CommitLog(Url) THEN 2
    ELSE IF IsCommitPath(p) THEN 3
    ELSE 4

AllCommitPagesWritten ==
    \A i \in 1..Len(commits) : Written(CommitFile(Url, commits[i].id))

\* C8: the steps of generate run in one order, each ended before the next
\* starts: directories, stylesheet, log page, commit pages, tree.  The log
\* page is written before any commit page, and every commit page before any
\* file of the tree output.
C8_StepsInFixedOrder ==
    /\ \A i, j \in 1..Len(writes) : i < j => Stage(writes[i]) <= Stage(writes[j])
    /\ pc = "precreate_dirs" => writes = <<>>
    /\ pc = "write_default_css_if_not_exists" =>
           /\ writes = <<>>
           /\ { Url, CommitDir(Url) } \subseteq dirs
    /\ pc = "write_commit_log" =>
           /\ StyleCss(Url) \in DOMAIN files
           /\ \A i \in 1..Len(writes) : Stage(writes[i]) = 1
    /\ pc = "write_all_commits" =>
           /\ Written(CommitLog(Url))
           /\ \A i \in 1..Len(writes) : Stage(writes[i]) <= 3
           /\ Len(CommitPagesWritten) = ci - 1
    /\ pc \in { "write_all_tree_nodes", "walk", "done" } => AllCommitPagesWritten
    /\ \A i \in 1..Len(writes) :
           /\ Stage(writes[i]) >= 2 => { Url, CommitDir(Url) } \subseteq dirs
           /\ Stage(writes[i]) >= 3 => Written(CommitLog(Url))
           /\ Stage(writes[i]) = 4 => AllCommitPagesWritten

\* C8 witness: a finished run that wrote two commit pages and a tree entry.
C8_Witness ==
    /\ pc = "done"
    /\ Len(commits) = 2
    /\ \E i \in 1..Len(writes) : Stage(writes[i]) = 4 /\ writes[i] # TreeIndex(Url)

\* C9: the first operation that fails ends the run with its error: generate
\* returns that error, no later step or walk entry runs, nothing is written
\* after it, and the files written before it stay as they were.
C9_FirstErrorEndsTheRun ==
    /\ failure.err # "none" =>
           /\ pc = "failed"
           /\ result = failure.err
           /\ files = failure.files
           /\ writes = failure.writes
    /\ pc = "failed" => failure.err # "none"
    /\ pc = "done" => result = "Ok"

\* C9 witness: the walk failed at an entry that is not the last one, after
\* files were written.
C9_Witness ==
    /\ pc = "failed"
    /\ failure.err # "none"
    /\ pos <= Len(HeadTreeWalk)
    /\ Written(TreeIndex(Url))

\* C10: the committer entry of a commit page shows the committer's name and
\* email, the author entry the author's name and email.
C10_CommitterEntryShowsCommitter ==
    \A i \in 1..Len(commits) :
        LET c == commits[i]
            p == CommitFile(Url, c.id)
        IN IsPage(p, "commit") =>
               /\ files[p].main.author = [name |-> c.author.name, email |-> c.author.email]
               /\ files[p].main.committer =
                      [name |-> c.committer.name, email |-> c.committer.email]

\* C11: write_commit fails with InvalidUtf and writes no commit page when one
\* of the commit's author name, author email, committer name, committer
\* email, summary, message or diffstat text does not decode.
C11_UndecodableFieldWritesNoPage ==
    \A i \in 1..Len(commits) :
        commits[i].bad \in TextFields => ~Written(CommitFile(Url, commits[i].id))

\* The first parent of the i-th commit of the history; "empty" for a root.
FirstParentOf(i) == IF i < Len(commits) THEN commits[i + 1].id ELSE "empty"

\* C13: the change-set of a commit is the diff from its first parent's tree,
\* and from the empty tree only when the commit has no parent; when the first
\* parent's tree is unreadable no change-set is produced for the commit.
C13_ChangeSetFromFirstParentTree ==
    /\ \A i \in 1..Len(commits) :
           LET p == CommitFile(Url, commits[i].id)
           IN IsPage(p, "commit") =>
                  files[p].main.diffstat = [old |-> FirstParentOf(i), new |-> commits[i].id]
    /\ IsPage(CommitLog(Url), "log") =>
           \A i \in 1..Len(commits) :
               files[CommitLog(Url)].main.rows[i].stats =
                   [old |-> FirstParentOf(i), new |-> commits[i].id]

\* C17 as stated: a delta whose patch does not decode does not make
\* write_commit fail: write_all_commits fails with InvalidUtf only at a commit
\* with a text field that does not decode.
C17_UndecodablePatchDoesNotFail ==
    (pc = "failed" /\ result = "InvalidUtf" /\ Written(CommitLog(Url))) =>
        commits[ci - 1].bad \in CommitFields

\* C17, amended: a commit page holds one section per delta of the change-set,
\* in stored order, the patch text of the delta or the marker "unchanged or
\* binary" when it has no patch; a commit with a delta whose patch does not
\* decode gets no page, write_commit fails with InvalidUtf.
C17_PatchOrMarkerPerDeltaInOrder ==
    /\ \A i \in 1..Len(commits) :
           LET c == commits[i]
               p == CommitFile(Url, c.id)
           IN /\ (\E k \in 1..Len(c.deltas) : c.deltas[k] = "invalid") => ~Written(p)
              /\ IsPage(p, "commit") =>
                     /\ Len(files[p].main.deltas) = Len(c.deltas)
                     /\ \A k \in 1..Len(c.deltas) :
                            files[p].main.deltas[k] =
                                CASE c.deltas[k] = "text" -> [kind |-> "pre", patch |-> k]
                                  [] c.deltas[k] = "none" ->
                                         [kind |-> "marker", text |-> "unchanged or binary"]
    /\ (pc = "failed" /\ Written(CommitLog(Url)) /\ ci > 1
        /\ commits[ci - 1].bad = "none" /\ ~PatchesDecode(commits[ci - 1].deltas)) =>
           result \in { "InvalidUtf", "ObjectReadError" }

\* C17 witness: the page of the first commit holds a patch and a marker, and
\* write_commit failed at the second commit, whose only fault is a patch that
\* does not decode.
C17_Witness ==
    /\ pc = "failed"
    /\ result = "InvalidUtf"
    /\ Len(commits) = 2
    /\ ci = 3
    /\ commits[2].bad = "none"
    /\ commits[2].deltas = <<"none", "invalid", "text">>
    /\ IsPage(CommitFile(Url, "c1"), "commit")
    /\ files[CommitFile(Url, "c1")].main.deltas =
           <<[kind |-> "pre", patch |-> 1], [kind |-> "marker", text |-> "unchanged or binary"]>>

\* The pages in the destination; each was written by this run.
Pages == { p \in DOMAIN files : files[p].kind = "page" }

\* C12 as stated: a sidecar file that is there but cannot be read (permission
\* denied, undecodable content) makes description() or url() return an error,
\* which stops the run.
C12_UnreadableSidecarStopsTheRun ==
    \A prop \in SidecarProps :
        \A k \in 1..Len(reads[prop]) :
            reads[prop][k].kind \in { "denied", "undecodable" } => pc = "failed"

\* C12, amended: description() and url() never return an error.  The value is
\* the empty string when the sidecar file is absent, when it cannot be read
\* (permission denied, undecodable content) and when it holds only
\* whitespace; otherwise it is the text of the file without the whitespace
\* at its two ends.  After the properties were computed for the first page,
\* only the write of that page can fail.
C12_BlankOnEveryReadError ==
    /\ \A prop \in SidecarProps :
           cache[prop].set =>
               LET file == reads[prop][1]
                   value == cache[prop].value
               IN /\ file.kind \in { "absent", "denied", "undecodable" } => value = <<>>
                  /\ file = TextFile(<<"\n">>) => value = <<>>
                  /\ file = TextFile(<<" ", "a", " ", "b", "\n">>) => value = <<"a", " ", "b">>
    /\ (cache["url"].set /\ Pages = {} /\ pc = "failed") =>
           result \in { "IoError", "NotFound", "NotADirectory", "IsADirectory" }

\* C12 witness: a run that read a description file it may not read and a url
\* file that does not decode, and ended well, the log page showing neither.
C12_Witness ==
    /\ pc = "done"
    /\ result = "Ok"
    /\ reads["description"] = <<Denied>>
    /\ reads["url"] = <<Undecodable>>
    /\ IsPage(CommitLog(Url), "log")
    /\ files[CommitLog(Url)].description = <<>>
    /\ files[CommitLog(Url)].url = <<>>

\* C18: name(), description() and url() are each computed at most once, the
\* sidecar file read by the first call only; every page of the run shows the
\* value of the first call, whatever became of the sidecar file since.
C18_ComputedAtMostOnce ==
    /\ \A prop \in CachedProps : Len(reads[prop]) <= 1
    /\ \A p \in Pages :
           /\ cache["name"].set /\ files[p].name = cache["name"].value
           /\ cache["description"].set /\ files[p].description = cache["description"].value
           /\ cache["url"].set /\ files[p].url = cache["url"].value
    /\ \A p, q \in Pages :
           /\ files[p].name = files[q].name
           /\ files[p].description = files[q].description
           /\ files[p].url = files[q].url

\* C18 witness: the run wrote three pages or more, all showing the
\* description read for the first, while the description file was removed
\* and the url file created in between.
C18_Witness ==
    /\ pc = "done"
    /\ Cardinality(Pages) >= 3
    /\ reads["description"] = <<TextFile(<<" ", "a", " ", "b", "\n">>)>>
    /\ reads["url"] = <<Absent>>
    /\ sidecar = [description |-> Absent, url |-> TextFile(<<" ", "a", " ", "b", "\n">>)]
    /\ \A p \in Pages : files[p].description = <<"a", " ", "b">> /\ files[p].url = <<>>

\* The place of the i-th entry of the walk below the tree directory of the
\* destination: the directory its page goes to, then its stored name.
EntryPlace(i) ==
    Join(JoinAll(TreeDir(Url), HeadTreeWalk[i].parent), HeadTreeWalk[i].entry.name)

\* C14: write_tree_leaf, when it succeeds on a blob that does not decode,
\* writes a raw file beside the page, named as the page without its suffix
\* and holding the blob's content, then the page, with the notice and a link
\* that resolves from the page's directory to the raw file; on a blob that
\* decodes it writes the page alone, without the notice.
C14_RawSiblingOnlyForUndecodableBlob ==
    [][ (pc = "walk" /\ pos' = pos + 1 /\ pc' # "failed"
         /\ HeadTreeWalk[pos].entry.kind = "blob") =>
            LET object == HeadTreeWalk[pos].entry
                raw == EntryPlace(pos)
                page == Append(Parent(raw), Append(FileName(raw), "html"))
            IN /\ page \in DOMAIN files'
               /\ files'[page].kind = "page"
               /\ files'[page].main.kind = "leaf"
               /\ IF object.text
                  THEN /\ writes' = Append(writes, page)
                       /\ files'[page].main.body = "highlighted"
                  ELSE /\ writes' = writes \o <<raw, page>>
                       /\ raw # page
                       /\ Parent(raw) = Parent(page)
                       /\ files'[raw] =
                              [kind |-> "raw",
                               blob |-> Append(HeadTreeWalk[pos].parent, object.name)]
                       /\ files'[page].main.body = "notice"
                       /\ Resolve(Parent(page), files'[page].main.raw) = raw
      ]_vars

\* C14 witness: a finished run over a tree with a blob that does not decode
\* and, after it, a blob that does; the raw file and the two pages are there.
C14_Witness ==
    /\ pc = "done"
    /\ Len(tree) = 2
    /\ tree[1].kind = "blob" /\ ~tree[1].text
    /\ tree[2].kind = "blob" /\ tree[2].text
    /\ EntryPlace(1) \in DOMAIN files /\ files[EntryPlace(1)].kind = "raw"
    /\ IsPage(DotHtml(EntryPlace(1)), "leaf")
    /\ files[DotHtml(EntryPlace(1))].main.body = "notice"
    /\ IsPage(DotHtml(EntryPlace(2)), "leaf")
    /\ files[DotHtml(EntryPlace(2))].main.body = "highlighted"

\* The files a walk over forest writes below dir when every directory and
\* every file is processed once, siblings in stored order, a directory before
\* what it holds: per directory its index page, per file its page, after the
\* raw file if it has one.
RECURSIVE ExpectedTreeWrites(_, _)
ExpectedTreeWrites(forest, dir) ==
    IF forest = <<>> THEN <<>>
    ELSE LET e == Head(forest)
             place == Append(dir, e.name)
             page == Append(dir, Append(e.name, "html"))
         IN (CASE e.kind = "tree" -> <<page>> \o ExpectedTreeWrites(e.children, place)
               [] e.kind = "blob" -> IF e.text THEN <<page>> ELSE <<place, page>>
               [] OTHER -> <<>>)
            \o ExpectedTreeWrites(Tail(forest), dir)

IsTreeStagePath(p) == Stage(p) = 4

\* C15: in a run without a failure write_all_tree_nodes processes every
\* directory and every file of the head tree exactly once, siblings in stored
\* order, and writes the index page of a directory before the page of any
\* entry beneath it.
C15_EveryEntryOnceInStoredOrder ==
    pc = "done" =>
        SelectSeq(writes, IsTreeStagePath) =
            <<TreeIndex(Url)>> \o ExpectedTreeWrites(tree, TreeDir(Url))

\* C15 witness: a finished run over a directory that holds an entry and is
\* followed by a sibling.
C15_Witness ==
    /\ pc = "done"
    /\ Len(tree) = 2
    /\ tree[1].kind = "tree"
    /\ Len(tree[1].children) = 1
    /\ tree[1].children[1].kind = "blob"
    /\ tree[2].kind = "blob"
    /\ Len(SelectSeq(writes, IsTreeStagePath)) >= 4

\* C16: after a successful run every child link of every directory index
\* page, resolved from the directory of that page, is the path of a page the
\* run wrote, whatever the kind of the child.
C16_EveryChildLinkReachesAPage ==
    pc = "done" =>
        \A p \in Pages :
            files[p].main.kind = "branch" =>
                \A k \in 1..Len(files[p].main.items) :
                    LET target == Resolve(Parent(p), files[p].main.items[k].href)
                    IN Written(target) /\ target \in Pages

====
